---- MODULE Spec2Model ----
(***************************************************************************)
(* The reader-writer lock of parking_lot: the guard-returning RwLock<T> of *)
(* src/src/rwlock.rs over the raw lock it delegates to (raw_rwlock.rs,     *)
(* which the repository keeps outside src/; its state word and queueing    *)
(* protocol are taken from spec.md sections 3 to 6).                       *)
(***************************************************************************)
EXTENDS Integers, Sequences, FiniteSets, TLC

\* ------------------------------------------------------------------ bounds
NThreads == 3
MaxOps == 4
MaxHold == 2
WordBits == 6

Threads == 1..NThreads

\* ------------------------------------------------- state word (spec.md 3)
PARKED_BIT == 1
UPGRADABLE_PARKED_BIT == 2
WRITER_BIT == 4
UPGRADABLE_BIT == 8
ONE_READER == 16

Word == 2^WordBits

HasBit(s, b) == (s \div b) % 2 = 1
SetBit(s, b) == IF HasBit(s, b) THEN s ELSE s + b
ClearBit(s, b) == IF HasBit(s, b) THEN s - b ELSE s
WithBit(s, b, on) == IF on THEN SetBit(s, b) ELSE ClearBit(s, b)
SharedCount(s) == s \div ONE_READER
\* adding ONE_READER stays inside the word
NoOverflow(s) == s + ONE_READER < Word
\* usize arithmetic
Wrap(x) == x % Word

None == -2

VARIABLES state, queue, upqueue, pc, call, guards, data, tmp, snap, nInc, ops, last,
          enq

vars == <<state, queue, upqueue, pc, call, guards, data, tmp, snap, nInc, ops, last,
          enq>>

NoGuards == [r |-> 0, w |-> FALSE, u |-> FALSE, m |-> FALSE]

NoCall == [kind |-> "none", timed |-> FALSE, guard |-> "none"]

\* last: the method call the latest step made, what it returned and the raw
\* lock it was made on; kept only by the specifications that observe calls
NoLast ==
    [t |-> 0, op |-> "none", ok |-> FALSE, state |-> 0, queue |-> <<>>, upqueue |-> <<>>]
Unobserved == [NoLast EXCEPT !.op = "off"]

RwLock_new ==
    /\ state = 0
    /\ queue = <<>>
    /\ upqueue = <<>>
    /\ pc = [t \in Threads |-> "idle"]
    /\ call = [t \in Threads |-> NoCall]
    /\ guards = [t \in Threads |-> NoGuards]
    /\ data = 0
    /\ tmp = [t \in Threads |-> None]
    /\ snap = [t \in Threads |-> None]
    /\ nInc = 0
    /\ ops = 0

\* enq: the keys on which a waiter has been enqueued since the lock was
\* made; kept only by the specification that tracks it
Untracked == {"off"}

Init == RwLock_new /\ last = Unobserved /\ enq = Untracked
InitObserved == RwLock_new /\ last = NoLast /\ enq = Untracked
InitTracked == RwLock_new /\ last = Unobserved /\ enq = {}

\* ------------------------------------------- raw lock: fast paths (4.1)
\* the shared fast path adding ONE_READER in wrapping arithmetic, no check
try_lock_shared_wrapping(s, recursive) ==
    IF ~HasBit(s, WRITER_BIT) /\ (recursive \/ ~HasBit(s, PARKED_BIT))
    THEN [ok |-> TRUE, state |-> Wrap(s + ONE_READER)]
    ELSE [ok |-> FALSE, state |-> s]

try_lock_shared(s, recursive) ==
    IF ~HasBit(s, WRITER_BIT) /\ (recursive \/ ~HasBit(s, PARKED_BIT)) /\ NoOverflow(s)
    THEN [ok |-> TRUE, state |-> s + ONE_READER]
    ELSE [ok |-> FALSE, state |-> s]

try_lock_exclusive(s) ==
    IF s = 0
    THEN [ok |-> TRUE, state |-> WRITER_BIT]
    ELSE [ok |-> FALSE, state |-> s]

try_lock_upgradable(s) ==
    IF /\ ~HasBit(s, WRITER_BIT)
       /\ ~HasBit(s, UPGRADABLE_BIT)
       /\ ~HasBit(s, UPGRADABLE_PARKED_BIT)
       /\ NoOverflow(s)
    THEN [ok |-> TRUE, state |-> s + ONE_READER + UPGRADABLE_BIT]
    ELSE [ok |-> FALSE, state |-> s]

try_upgradable_to_exclusive(s) ==
    IF HasBit(s, UPGRADABLE_BIT) /\ SharedCount(s) = 1
    THEN [ok |-> TRUE, state |-> s - ONE_READER - UPGRADABLE_BIT + WRITER_BIT]
    ELSE [ok |-> FALSE, state |-> s]

\* ------------------------------------------- raw lock: slow paths (4.2)
\* kinds of a pending raw acquisition, also the waiter token's mode:
\* S shared, SR shared recursive, X exclusive, U upgradable, UPG upgrading
IsReader(k) == k \in {"S", "SR"}

\* the acquire attempt at the top of the slow-path loop
CanAcquire(s, k) ==
    CASE k = "S" -> try_lock_shared(s, FALSE).ok
      [] k = "SR" -> try_lock_shared(s, TRUE).ok
      [] k = "X" -> ~HasBit(s, WRITER_BIT) /\ SharedCount(s) = 0
      [] k = "U" -> try_lock_upgradable(s).ok
      [] k = "UPG" -> try_upgradable_to_exclusive(s).ok
      [] OTHER -> FALSE

Acquired(s, k) ==
    CASE k = "S" -> s + ONE_READER
      [] k = "SR" -> s + ONE_READER
      [] k = "X" -> s + WRITER_BIT
      [] k = "U" -> s + ONE_READER + UPGRADABLE_BIT
      [] k = "UPG" -> s - ONE_READER - UPGRADABLE_BIT + WRITER_BIT
      [] OTHER -> s

\* what the waiter is blocked on; a count that would overflow is waited out
\* by spinning, never by parking
Blocked(s, k) ==
    CASE k = "S" -> HasBit(s, WRITER_BIT) \/ HasBit(s, PARKED_BIT)
      [] k = "SR" -> HasBit(s, WRITER_BIT)
      [] k = "X" -> HasBit(s, WRITER_BIT) \/ SharedCount(s) > 0
      [] k = "U" -> \/ HasBit(s, WRITER_BIT)
                    \/ HasBit(s, UPGRADABLE_BIT)
                    \/ HasBit(s, UPGRADABLE_PARKED_BIT)
      [] k = "UPG" -> SharedCount(s) > 1
      [] OTHER -> FALSE

\* the queue-control bit of the key the waiter parks on
\* the two keys' bits taken for one another
ParkBit_swapped(k) == IF k = "U" THEN PARKED_BIT ELSE UPGRADABLE_PARKED_BIT
ParkBit(k) == IF k = "U" THEN UPGRADABLE_PARKED_BIT ELSE PARKED_BIT

\* validation callback, run under the queue's lock
Validate(s, k) == HasBit(s, ParkBit(k)) /\ Blocked(s, k)

RECURSIVE ReaderPrefix(_)
ReaderPrefix(q) ==
    IF q = <<>> \/ ~IsReader(Head(q).k) THEN 0 ELSE 1 + ReaderPrefix(Tail(q))

SkipN(q, n) == SubSeq(q, n + 1, Len(q))
Waiters(q, n) == {q[i].t : i \in 1..n}

NoWake(s, q, uq) ==
    [state |-> s, queue |-> q, upqueue |-> uq, normal |-> {}, handoff |-> {}]

\* wake pass over the shared/exclusive key once the releaser's bits are out
\* of s: a writer at the head is woken alone, readers at the head are woken
\* together up to the first waiter that is not a reader
WakeSE(s, q, uq, fair) ==
    IF q = <<>> THEN NoWake(ClearBit(s, PARKED_BIT), q, uq)
    ELSE IF Head(q).k = "X" THEN
        LET rest == Tail(q)
            s1 == IF fair THEN SetBit(s, WRITER_BIT) ELSE s
        IN [state |-> WithBit(s1, PARKED_BIT, rest # <<>>),
            queue |-> rest, upqueue |-> uq,
            normal |-> IF fair THEN {} ELSE {Head(q).t},
            handoff |-> IF fair THEN {Head(q).t} ELSE {}]
    ELSE
        LET n == ReaderPrefix(q)
            rest == SkipN(q, n)
            s1 == IF fair THEN Wrap(s + n * ONE_READER) ELSE s
        IN IF n = 0 THEN NoWake(s, q, uq)
           ELSE [state |-> WithBit(s1, PARKED_BIT, rest # <<>>),
                 queue |-> rest, upqueue |-> uq,
                 normal |-> IF fair THEN {} ELSE Waiters(q, n),
                 handoff |-> IF fair THEN Waiters(q, n) ELSE {}]

\* wake one waiter of the upgradable key
WakeUP(r) ==
    IF ~HasBit(r.state, UPGRADABLE_PARKED_BIT) \/ HasBit(r.state, UPGRADABLE_BIT)
    THEN r
    ELSE IF r.upqueue = <<>>
    THEN [r EXCEPT !.state = ClearBit(@, UPGRADABLE_PARKED_BIT)]
    ELSE [r EXCEPT !.state = WithBit(@, UPGRADABLE_PARKED_BIT, Tail(r.upqueue) # <<>>),
                   !.upqueue = Tail(@),
                   !.normal = @ \cup {Head(r.upqueue)}]

\* ------------------------------------------- raw lock: releases (4.1, 4.2)
\* force_fair is the caller's choice (unlock_fair), be_fair the fairness
\* clock's: the fair-timeout has passed or the section was a long one (4.4)
unlock_exclusive(s, q, uq, force_fair, be_fair) ==
    LET base == ClearBit(s, WRITER_BIT)
        fair == force_fair \/ be_fair
    IN WakeUP(IF HasBit(s, PARKED_BIT) THEN WakeSE(base, q, uq, fair)
              ELSE NoWake(base, q, uq))

UpgraderAt(q) == {i \in 1..Len(q) : q[i].k = "UPG"}
Without(q, i) == SubSeq(q, 1, i - 1) \o SubSeq(q, i + 1, Len(q))

unlock_shared(s, q, uq, force_fair, be_fair) ==
    LET base == Wrap(s - ONE_READER)
        fair == force_fair \/ be_fair
    IN IF ~HasBit(s, PARKED_BIT) THEN NoWake(base, q, uq)
       ELSE IF SharedCount(base) = 0 THEN WakeSE(base, q, uq, fair)
       ELSE IF /\ SharedCount(base) = 1
               /\ HasBit(s, UPGRADABLE_BIT)
               /\ UpgraderAt(q) # {}
       THEN \* last other reader: hand the lock to the parked upgrader
            LET i == CHOOSE j \in UpgraderAt(q) : TRUE
                rest == Without(q, i)
                s1 == base - ONE_READER - UPGRADABLE_BIT + WRITER_BIT
            IN [state |-> WithBit(s1, PARKED_BIT, rest # <<>>),
                queue |-> rest, upqueue |-> uq,
                normal |-> {}, handoff |-> {q[i].t}]
       ELSE NoWake(base, q, uq)

unlock_upgradable(s, q, uq, force_fair, be_fair) ==
    LET base == Wrap(ClearBit(s, UPGRADABLE_BIT) - ONE_READER)
        fair == force_fair \/ be_fair
    IN WakeUP(IF HasBit(s, PARKED_BIT) /\ SharedCount(base) = 0
              THEN WakeSE(base, q, uq, fair)
              ELSE NoWake(base, q, uq))

\* ------------------------------------------- raw lock: transitions (4.3)
\* first step of exclusive -> shared: one CAS, both parked bits kept
exclusive_to_shared(s) == Wrap(ClearBit(s, WRITER_BIT) + ONE_READER)

\* second step, taken when the CAS found PARKED_BIT: wake the readers at
\* the head of the queue, stopping at the first writer
downgrade_wake(s, q, uq) ==
    IF ~HasBit(s, PARKED_BIT) THEN NoWake(s, q, uq)
    ELSE IF q = <<>> THEN NoWake(ClearBit(s, PARKED_BIT), q, uq)
    ELSE LET n == ReaderPrefix(q)
             rest == SkipN(q, n)
         IN IF n = 0 THEN NoWake(s, q, uq)
            ELSE [state |-> WithBit(s, PARKED_BIT, rest # <<>>),
                  queue |-> rest, upqueue |-> uq,
                  normal |-> Waiters(q, n), handoff |-> {}]

upgradable_to_shared(s, q, uq) ==
    WakeUP(NoWake(ClearBit(s, UPGRADABLE_BIT), q, uq))

\* ------------------------------------------- raw lock: timed waits (4.5)
RemoveThread(q, t) == SelectSeq(q, LAMBDA e : e.t # t)
RemoveUp(uq, t) == SelectSeq(uq, LAMBDA e : e # t)

\* the timeout callback removing the waiter and leaving the bit alone
timed_out_keep_bit(s, q, uq, t, k) ==
    IF k = "U"
    THEN [state |-> s, queue |-> q, upqueue |-> RemoveUp(uq, t),
          normal |-> {}, handoff |-> {}]
    ELSE [state |-> s, queue |-> RemoveThread(q, t), upqueue |-> uq,
          normal |-> {}, handoff |-> {}]

timed_out(s, q, uq, t, k) ==
    IF k = "U"
    THEN LET rest == RemoveUp(uq, t)
         IN [state |-> IF rest = <<>> THEN ClearBit(s, UPGRADABLE_PARKED_BIT) ELSE s,
             queue |-> q, upqueue |-> rest, normal |-> {}, handoff |-> {}]
    ELSE LET rest == RemoveThread(q, t)
         IN [state |-> IF rest = <<>> THEN ClearBit(s, PARKED_BIT) ELSE s,
             queue |-> rest, upqueue |-> uq, normal |-> {}, handoff |-> {}]

\* the blocking and timed raw calls: the fast path tried at the call, the
\* kind the slow path continues with, and whether a deadline was passed
lock_shared(recursive) ==
    [fast |-> try_lock_shared(state, recursive),
     kind |-> IF recursive THEN "SR" ELSE "S", timed |-> FALSE]
try_lock_shared_for(recursive) == [lock_shared(recursive) EXCEPT !.timed = TRUE]
lock_exclusive ==
    [fast |-> try_lock_exclusive(state), kind |-> "X", timed |-> FALSE]
try_lock_exclusive_for == [lock_exclusive EXCEPT !.timed = TRUE]
lock_upgradable ==
    [fast |-> try_lock_upgradable(state), kind |-> "U", timed |-> FALSE]
try_lock_upgradable_for == [lock_upgradable EXCEPT !.timed = TRUE]
upgradable_to_exclusive ==
    [fast |-> try_upgradable_to_exclusive(state), kind |-> "UPG", timed |-> FALSE]
try_upgradable_to_exclusive_for == [upgradable_to_exclusive EXCEPT !.timed = TRUE]

\* ------------------------------------------------ guards (rwlock.rs)
Held(g) == g.r + (IF g.w THEN 1 ELSE 0) + (IF g.u THEN 1 ELSE 0)

read_guard(g) == [g EXCEPT !.r = @ + 1]
write_guard(g) == [g EXCEPT !.w = TRUE, !.m = FALSE]
upgradable_guard(g) == [g EXCEPT !.u = TRUE]
\* mem::forget(self) of the guard a conversion consumes
forget_write(g) == [g EXCEPT !.w = FALSE, !.m = FALSE]
forget_upgradable(g) == [g EXCEPT !.u = FALSE]
forget_read(g) == [g EXCEPT !.r = @ - 1]

MakeGuard(g, name) ==
    CASE name = "read" -> read_guard(g)
      [] name = "write" -> write_guard(g)
      [] name = "upgradable" -> upgradable_guard(g)
      [] name = "upgrade" -> write_guard(forget_upgradable(g))
      [] OTHER -> g

\* the raw call returned true: the method builds its guard; what the holder
\* first reads through it is kept in snap
Granted(t, name) ==
    /\ guards' = [guards EXCEPT ![t] = MakeGuard(@, name)]
    /\ snap' = [snap EXCEPT ![t] = IF @ = None THEN data ELSE @]

\* the call returned a guard to t at once (ok) or did not
\* the keys with a waiter in their queue after the step
Track ==
    enq' = IF enq = Untracked THEN enq
           ELSE enq \cup (IF queue' # <<>> THEN {"exclusive"} ELSE {})
                    \cup (IF upqueue' # <<>> THEN {"upgradable"} ELSE {})

Observe(t, op) ==
    /\ last' = IF last.op = "off" THEN last
               ELSE [t |-> t, op |-> op, ok |-> guards'[t] # guards[t],
                     state |-> state, queue |-> queue, upqueue |-> upqueue]
    /\ Track
Quiet == (last' = IF last.op = "off" THEN last ELSE NoLast) /\ Track

CanCall(t) == pc[t] = "idle" /\ ops < MaxOps /\ Held(guards[t]) < MaxHold

\* a blocking or timed method: the raw call either returns at once or
\* continues in the slow path
Lock(t, raw, name, counted) ==
    /\ state' = raw.fast.state
    /\ ops' = IF counted THEN ops + 1 ELSE ops
    /\ IF raw.fast.ok
       THEN Granted(t, name) /\ UNCHANGED <<pc, call>>
       ELSE /\ pc' = [pc EXCEPT ![t] = "slow"]
            /\ call' = [call EXCEPT ![t] =
                          [kind |-> raw.kind, timed |-> raw.timed, guard |-> name]]
            /\ UNCHANGED <<guards, snap>>
    /\ UNCHANGED <<queue, upqueue, data, tmp, nInc>>

\* a try method: Some(guard) or None, never the slow path
Try(t, r, name, counted) ==
    /\ state' = r.state
    /\ IF r.ok
       THEN Granted(t, name) /\ ops' = (IF counted THEN ops + 1 ELSE ops)
       ELSE UNCHANGED <<guards, snap, ops>>
    /\ UNCHANGED <<queue, upqueue, pc, call, data, tmp, nInc>>

\* read() passing the recursive flag to the raw lock
read_as_recursive(t) ==
    CanCall(t) /\ Lock(t, lock_shared(TRUE), "read", TRUE) /\ Observe(t, "read")
read(t) == CanCall(t) /\ Lock(t, lock_shared(FALSE), "read", TRUE) /\ Observe(t, "read")
\* try_read() passing the recursive flag to the raw lock
try_read_as_recursive(t) ==
    CanCall(t) /\ Try(t, try_lock_shared(state, TRUE), "read", TRUE) /\ Observe(t, "try_read")
try_read(t) == CanCall(t) /\ Try(t, try_lock_shared(state, FALSE), "read", TRUE) /\ Observe(t, "try_read")
try_read_for(t) == CanCall(t) /\ Lock(t, try_lock_shared_for(FALSE), "read", TRUE) /\ Observe(t, "try_read_for")
\* read_recursive() taking the default, non-recursive raw path
read_recursive_as_read(t) ==
    CanCall(t) /\ Lock(t, lock_shared(FALSE), "read", TRUE) /\ Observe(t, "read_recursive")
read_recursive(t) == CanCall(t) /\ Lock(t, lock_shared(TRUE), "read", TRUE) /\ Observe(t, "read_recursive")
\* try_read_recursive() entering the slow path when the fast path fails
try_read_recursive_blocking(t) ==
    CanCall(t) /\ Lock(t, lock_shared(TRUE), "read", TRUE) /\ Observe(t, "try_read_recursive")
try_read_recursive(t) ==
    CanCall(t) /\ Try(t, try_lock_shared(state, TRUE), "read", TRUE) /\ Observe(t, "try_read_recursive")
try_read_recursive_for(t) ==
    CanCall(t) /\ Lock(t, try_lock_shared_for(TRUE), "read", TRUE) /\ Observe(t, "try_read_recursive_for")
\* write() taking the raw lock in shared mode
write_lock_shared(t) == CanCall(t) /\ Lock(t, lock_shared(FALSE), "write", TRUE) /\ Observe(t, "write")
write(t) == CanCall(t) /\ Lock(t, lock_exclusive, "write", TRUE) /\ Observe(t, "write")
\* try_write() taking the raw lock in shared mode
try_write_lock_shared(t) ==
    CanCall(t) /\ Try(t, try_lock_shared(state, TRUE), "write", TRUE) /\ Observe(t, "try_write")
\* try_write() building its guard whatever the raw call returned
try_write_unchecked(t) ==
    CanCall(t) /\ Try(t, [try_lock_exclusive(state) EXCEPT !.ok = TRUE], "write", TRUE) /\ Observe(t, "try_write")
try_write(t) == CanCall(t) /\ Try(t, try_lock_exclusive(state), "write", TRUE) /\ Observe(t, "try_write")
try_write_for(t) == CanCall(t) /\ Lock(t, try_lock_exclusive_for, "write", TRUE) /\ Observe(t, "try_write_for")
\* upgradable_read() taking the raw lock in shared mode
upgradable_read_lock_shared(t) ==
    CanCall(t) /\ Lock(t, lock_shared(TRUE), "upgradable", TRUE) /\ Observe(t, "upgradable_read")
upgradable_read(t) == CanCall(t) /\ Lock(t, lock_upgradable, "upgradable", TRUE) /\ Observe(t, "upgradable_read")
\* try_upgradable_read() taking the raw lock in shared mode
try_upgradable_read_lock_shared(t) ==
    /\ CanCall(t)
    /\ Try(t, try_lock_shared(state, TRUE), "upgradable", TRUE)
    /\ Observe(t, "try_upgradable_read")
try_upgradable_read(t) ==
    CanCall(t) /\ Try(t, try_lock_upgradable(state), "upgradable", TRUE) /\ Observe(t, "try_upgradable_read")
try_upgradable_read_for(t) ==
    CanCall(t) /\ Lock(t, try_lock_upgradable_for, "upgradable", TRUE) /\ Observe(t, "try_upgradable_read_for")

\* ------------------------------------------------ releases (rwlock.rs)
WakeAll(r) ==
    [u \in Threads |-> IF u \in r.handoff THEN "handoff"
                       ELSE IF u \in r.normal THEN "slow" ELSE pc[u]]

\* a guard's destructor: the raw unlock, its wake-ups, the guard gone; next
\* is where the thread goes on
Unlocked(t, r, g, next) ==
    /\ pc[t] = "idle"
    /\ state' = r.state
    /\ queue' = r.queue
    /\ upqueue' = r.upqueue
    /\ pc' = [WakeAll(r) EXCEPT ![t] = next]
    /\ guards' = [guards EXCEPT ![t] = g]
    /\ snap' = [snap EXCEPT ![t] = IF Held(g) = 0 THEN None ELSE @]
    /\ UNCHANGED <<call, data, tmp, nInc, ops>>

Released(t, r, g) == Unlocked(t, r, g, "idle")

Release(t, r, g) == Released(t, r, g) /\ Quiet

\* a guard's drop as it is observed: with the fairness clock asking for a
\* fair release (4.4) or not
DropOp(be_fair) == IF be_fair THEN "drop_fair" ELSE "drop_unfair"

\* the read guard's drop without the raw unlock
ReadGuard_drop_no_unlock(t) ==
    /\ guards[t].r > 0
    /\ Release(t, NoWake(state, queue, upqueue), forget_read(guards[t]))

\* the read guard's drop calling the raw lock's upgradable unlock
ReadGuard_drop_unlock_upgradable(t) ==
    /\ guards[t].r > 0
    /\ \E be_fair \in BOOLEAN :
         /\ Released(t, unlock_upgradable(state, queue, upqueue, FALSE, be_fair),
                     forget_read(guards[t]))
         /\ Observe(t, DropOp(be_fair))

ReadGuard_drop(t) ==
    /\ guards[t].r > 0
    /\ \E be_fair \in BOOLEAN :
         /\ Released(t, unlock_shared(state, queue, upqueue, FALSE, be_fair),
                     forget_read(guards[t]))
         /\ Observe(t, DropOp(be_fair))

\* unlock_fair without mem::forget: the guard's drop unlocks a second time
ReadGuard_unlock_fair_twice(t) ==
    /\ guards[t].r > 0
    /\ \E be_fair \in BOOLEAN :
         LET r1 == unlock_shared(state, queue, upqueue, TRUE, be_fair)
             r2 == unlock_shared(r1.state, r1.queue, r1.upqueue, FALSE, be_fair)
         IN Release(t, [r2 EXCEPT !.normal = @ \cup r1.normal,
                                  !.handoff = @ \cup r1.handoff],
                    forget_read(guards[t]))

ReadGuard_unlock_fair(t) ==
    /\ guards[t].r > 0
    /\ \E be_fair \in BOOLEAN :
         Released(t, unlock_shared(state, queue, upqueue, TRUE, be_fair),
                  forget_read(guards[t]))
    /\ Observe(t, "unlock_fair")

\* the write guard's drop calling the raw lock's fair unlock
WriteGuard_drop_fair(t) ==
    /\ guards[t].w
    /\ \E be_fair \in BOOLEAN :
         /\ Released(t, unlock_exclusive(state, queue, upqueue, TRUE, be_fair),
                     forget_write(guards[t]))
         /\ Observe(t, DropOp(be_fair))

WriteGuard_drop(t) ==
    /\ guards[t].w
    /\ \E be_fair \in BOOLEAN :
         /\ Released(t, unlock_exclusive(state, queue, upqueue, FALSE, be_fair),
                     forget_write(guards[t]))
         /\ Observe(t, DropOp(be_fair))

\* unlock_fair calling the raw lock's plain unlock
WriteGuard_unlock_fair_as_drop(t) ==
    /\ guards[t].w
    /\ \E be_fair \in BOOLEAN :
         Released(t, unlock_exclusive(state, queue, upqueue, FALSE, be_fair),
                  forget_write(guards[t]))
    /\ Observe(t, "unlock_fair")

WriteGuard_unlock_fair(t) ==
    /\ guards[t].w
    /\ \E be_fair \in BOOLEAN :
         Released(t, unlock_exclusive(state, queue, upqueue, TRUE, be_fair),
                  forget_write(guards[t]))
    /\ Observe(t, "unlock_fair")

\* the upgradable guard's drop releasing a plain shared hold
UpgradableGuard_drop_unlock_shared(t) ==
    /\ guards[t].u
    /\ \E be_fair \in BOOLEAN :
         Release(t, unlock_shared(state, queue, upqueue, FALSE, be_fair),
                 forget_upgradable(guards[t]))

UpgradableGuard_drop(t) ==
    /\ guards[t].u
    /\ \E be_fair \in BOOLEAN :
         /\ Released(t, unlock_upgradable(state, queue, upqueue, FALSE, be_fair),
                     forget_upgradable(guards[t]))
         /\ Observe(t, DropOp(be_fair))

UpgradableGuard_unlock_fair(t) ==
    /\ guards[t].u
    /\ \E be_fair \in BOOLEAN :
         Released(t, unlock_upgradable(state, queue, upqueue, TRUE, be_fair),
                  forget_upgradable(guards[t]))
    /\ Observe(t, "unlock_fair")

\* ------------------------------------------------ unwinding (rwlock.rs tests)
\* the raw unlock the destructor of t's only guard calls
DropOf(t, be_fair) ==
    IF guards[t].w THEN unlock_exclusive(state, queue, upqueue, FALSE, be_fair)
    ELSE IF guards[t].u THEN unlock_upgradable(state, queue, upqueue, FALSE, be_fair)
    ELSE unlock_shared(state, queue, upqueue, FALSE, be_fair)

\* a panic that ends the thread without running the guard's destructor
Panic_no_drop(t) ==
    /\ Held(guards[t]) = 1
    /\ Unlocked(t, NoWake(state, queue, upqueue), NoGuards, "dead")
    /\ Quiet

\* let _lock = arc2.write(); panic!(): the scope ends by unwinding, which
\* runs the guard's destructor, and the thread is gone
Panic(t) ==
    /\ Held(guards[t]) = 1
    /\ \E be_fair \in BOOLEAN : Unlocked(t, DropOf(t, be_fair), NoGuards, "dead")
    /\ Quiet

\* ------------------------------------------------ conversions (rwlock.rs)
\* downgrade as an unlock followed by a fresh shared acquisition
WriteGuard_downgrade_relock(t) ==
    /\ pc[t] = "idle"
    /\ guards[t].w
    /\ \E be_fair \in BOOLEAN :
         LET r == unlock_exclusive(state, queue, upqueue, FALSE, be_fair)
         IN /\ state' = r.state
            /\ queue' = r.queue
            /\ upqueue' = r.upqueue
            /\ pc' = [WakeAll(r) EXCEPT ![t] = "slow"]
    /\ call' = [call EXCEPT ![t] = [kind |-> "SR", timed |-> FALSE, guard |-> "read"]]
    /\ guards' = [guards EXCEPT ![t] = forget_write(@)]
    /\ UNCHANGED <<data, tmp, snap, nInc, ops>>
    /\ Observe(t, "downgrade")

WriteGuard_downgrade(t) ==
    /\ pc[t] = "idle"
    /\ guards[t].w
    /\ state' = exclusive_to_shared(state)
    /\ pc' = [pc EXCEPT ![t] = IF HasBit(state, PARKED_BIT) THEN "dgwake" ELSE "idle"]
    /\ guards' = [guards EXCEPT ![t] = read_guard(forget_write(@))]
    /\ UNCHANGED <<queue, upqueue, call, data, tmp, snap, nInc, ops>>
    /\ Observe(t, "downgrade")

\* downgrade releasing the upgradable lock and keeping a read guard
UpgradableGuard_downgrade_unlock(t) ==
    /\ guards[t].u
    /\ \E be_fair \in BOOLEAN :
         Release(t, unlock_upgradable(state, queue, upqueue, FALSE, be_fair),
                 read_guard(forget_upgradable(guards[t])))

UpgradableGuard_downgrade(t) ==
    /\ guards[t].u
    /\ Release(t, upgradable_to_shared(state, queue, upqueue),
               read_guard(forget_upgradable(guards[t])))

\* upgrade as an unlock followed by a fresh exclusive acquisition
upgrade_relock(t) ==
    /\ pc[t] = "idle"
    /\ guards[t].u
    /\ \E be_fair \in BOOLEAN :
         LET r == unlock_upgradable(state, queue, upqueue, FALSE, be_fair)
         IN /\ state' = r.state
            /\ queue' = r.queue
            /\ upqueue' = r.upqueue
            /\ pc' = [WakeAll(r) EXCEPT ![t] = "slow"]
    /\ call' = [call EXCEPT ![t] = [kind |-> "X", timed |-> FALSE, guard |-> "write"]]
    /\ guards' = [guards EXCEPT ![t] = forget_upgradable(@)]
    /\ UNCHANGED <<data, tmp, snap, nInc, ops>>
    /\ Quiet

upgrade(t) ==
    pc[t] = "idle" /\ guards[t].u /\ Lock(t, upgradable_to_exclusive, "upgrade", FALSE) /\ Observe(t, "upgrade")
\* try_upgrade() asking the raw lock for a fresh exclusive acquisition
try_upgrade_try_lock_exclusive(t) ==
    /\ pc[t] = "idle"
    /\ guards[t].u
    /\ Try(t, try_lock_exclusive(state), "upgrade", FALSE)
    /\ Observe(t, "try_upgrade")
\* try_upgrade() building the write guard whatever the raw call returned
try_upgrade_unchecked(t) ==
    /\ pc[t] = "idle"
    /\ guards[t].u
    /\ Try(t, [try_upgradable_to_exclusive(state) EXCEPT !.ok = TRUE], "upgrade", FALSE)
    /\ Observe(t, "try_upgrade")
try_upgrade(t) ==
    /\ pc[t] = "idle"
    /\ guards[t].u
    /\ Try(t, try_upgradable_to_exclusive(state), "upgrade", FALSE)
    /\ Observe(t, "try_upgrade")
\* try_upgrade_for() giving up the upgradable guard before the raw call
\* has returned
try_upgrade_for_forget_first(t) ==
    /\ pc[t] = "idle"
    /\ guards[t].u
    /\ LET raw == try_upgradable_to_exclusive_for
       IN /\ state' = raw.fast.state
          /\ IF raw.fast.ok
             THEN Granted(t, "upgrade") /\ UNCHANGED <<pc, call>>
             ELSE /\ pc' = [pc EXCEPT ![t] = "slow"]
                  /\ call' = [call EXCEPT ![t] =
                                [kind |-> raw.kind, timed |-> raw.timed, guard |-> "upgrade"]]
                  /\ guards' = [guards EXCEPT ![t] = forget_upgradable(@)]
                  /\ UNCHANGED snap
    /\ UNCHANGED <<queue, upqueue, data, tmp, nInc, ops>>
    /\ Observe(t, "try_upgrade_for")
try_upgrade_for(t) ==
    /\ pc[t] = "idle"
    /\ guards[t].u
    /\ Lock(t, try_upgradable_to_exclusive_for, "upgrade", FALSE)
    /\ Observe(t, "try_upgrade_for")

\* ------------------------------------------------ slow-path steps (4.2)
SlowAcquire(t) ==
    /\ pc[t] = "slow"
    /\ CanAcquire(state, call[t].kind)
    /\ state' = Acquired(state, call[t].kind)
    /\ pc' = [pc EXCEPT ![t] = "idle"]
    /\ call' = [call EXCEPT ![t] = NoCall]
    /\ Granted(t, call[t].guard)
    /\ UNCHANGED <<queue, upqueue, data, tmp, nInc, ops>>
    /\ Quiet

SetParked(t) ==
    /\ pc[t] = "slow"
    /\ ~CanAcquire(state, call[t].kind)
    /\ Blocked(state, call[t].kind)
    /\ state' = SetBit(state, ParkBit(call[t].kind))
    /\ pc' = [pc EXCEPT ![t] = "park"]
    /\ UNCHANGED <<queue, upqueue, call, guards, data, tmp, snap, nInc, ops>>
    /\ Quiet

\* park() enqueueing the caller without running the validation callback
Park_unvalidated(t) ==
    /\ pc[t] = "park"
    /\ pc' = [pc EXCEPT ![t] = "parked"]
    /\ IF call[t].kind = "U"
       THEN upqueue' = Append(upqueue, t) /\ UNCHANGED queue
       ELSE queue' = Append(queue, [t |-> t, k |-> call[t].kind]) /\ UNCHANGED upqueue
    /\ UNCHANGED <<state, call, guards, data, tmp, snap, nInc, ops>>
    /\ Quiet

Park(t) ==
    /\ pc[t] = "park"
    /\ IF Validate(state, call[t].kind)
       THEN /\ pc' = [pc EXCEPT ![t] = "parked"]
            /\ IF call[t].kind = "U"
               THEN upqueue' = Append(upqueue, t) /\ UNCHANGED queue
               ELSE /\ queue' = Append(queue, [t |-> t, k |-> call[t].kind])
                    /\ UNCHANGED upqueue
       ELSE pc' = [pc EXCEPT ![t] = "slow"] /\ UNCHANGED <<queue, upqueue>>
    /\ UNCHANGED <<state, call, guards, data, tmp, snap, nInc, ops>>
    /\ Quiet

TimedOut(t) ==
    /\ pc[t] = "parked"
    /\ call[t].timed
    /\ LET r == timed_out(state, queue, upqueue, t, call[t].kind)
       IN state' = r.state /\ queue' = r.queue /\ upqueue' = r.upqueue
    /\ pc' = [pc EXCEPT ![t] = "idle"]
    /\ call' = [call EXCEPT ![t] = NoCall]
    /\ UNCHANGED <<guards, data, tmp, snap, nInc, ops>>
    /\ Observe(t, IF call[t].guard = "upgrade" THEN "upgrade_timed_out" ELSE "timed_out")

Resume(t) ==
    /\ pc[t] = "handoff"
    /\ pc' = [pc EXCEPT ![t] = "idle"]
    /\ call' = [call EXCEPT ![t] = NoCall]
    /\ Granted(t, call[t].guard)
    /\ UNCHANGED <<state, queue, upqueue, data, tmp, nInc, ops>>
    /\ Quiet

DowngradeWake(t) ==
    /\ pc[t] = "dgwake"
    /\ LET r == downgrade_wake(state, queue, upqueue)
       IN /\ state' = r.state
          /\ queue' = r.queue
          /\ upqueue' = r.upqueue
          /\ pc' = [WakeAll(r) EXCEPT ![t] = "idle"]
    /\ UNCHANGED <<call, guards, data, tmp, snap, nInc, ops>>
    /\ Observe(t, "downgrade_wake")

\* ------------------------------------------------ the payload
\* a writer's critical section as the tests write it: tmp = *lock;
\* *lock = -1; yield; *lock = tmp + 1
WriteBegin(t) ==
    /\ pc[t] = "idle"
    /\ guards[t].w
    /\ ~guards[t].m
    /\ tmp' = [tmp EXCEPT ![t] = data]
    /\ data' = -1
    /\ snap' = [snap EXCEPT ![t] = None]
    /\ pc' = [pc EXCEPT ![t] = "mut"]
    /\ UNCHANGED <<state, queue, upqueue, call, guards, nInc, ops>>
    /\ Quiet

WriteEnd(t) ==
    /\ pc[t] = "mut"
    /\ data' = tmp[t] + 1
    /\ tmp' = [tmp EXCEPT ![t] = None]
    /\ snap' = [snap EXCEPT ![t] = tmp[t] + 1]
    /\ nInc' = nInc + 1
    /\ guards' = [guards EXCEPT ![t].m = TRUE]
    /\ pc' = [pc EXCEPT ![t] = "idle"]
    /\ UNCHANGED <<state, queue, upqueue, call, ops>>
    /\ Quiet

Next ==
    \E t \in Threads :
        \/ read(t) \/ try_read(t) \/ try_read_for(t)
        \/ read_recursive(t) \/ try_read_recursive(t) \/ try_read_recursive_for(t)
        \/ write(t) \/ try_write(t) \/ try_write_for(t)
        \/ upgradable_read(t) \/ try_upgradable_read(t) \/ try_upgradable_read_for(t)
        \/ ReadGuard_drop(t) \/ ReadGuard_unlock_fair(t)
        \/ WriteGuard_drop(t) \/ WriteGuard_unlock_fair(t)
        \/ UpgradableGuard_drop(t) \/ UpgradableGuard_unlock_fair(t)
        \/ WriteGuard_downgrade(t) \/ UpgradableGuard_downgrade(t)
        \/ upgrade(t) \/ try_upgrade(t) \/ try_upgrade_for(t)
        \/ SlowAcquire(t) \/ SetParked(t) \/ Park(t) \/ TimedOut(t)
        \/ Resume(t) \/ DowngradeWake(t)
        \/ WriteBegin(t) \/ WriteEnd(t)

Spec == Init /\ [][Next]_vars

TypeOK ==
    /\ state \in 0..(Word - 1)
    /\ \A t \in Threads : pc[t] \in {"idle", "slow", "park", "parked", "handoff", "dgwake", "mut", "dead"}

\* ------------------------------------------------ who holds what
HoldsExclusive(t) == guards[t].w
HoldsShared(t) == guards[t].r > 0
HoldsUpgradable(t) == guards[t].u
\* a waiter the waker has granted the lock to and that has not resumed yet
PreGranted(t, kinds) == pc[t] = "handoff" /\ call[t].kind \in kinds
Quiescent == \A t \in Threads : pc[t] = "idle" /\ Held(guards[t]) = 0

\* C1 Mutual exclusion between writer and readers: the state word never has
\* WRITER_BIT together with a non-zero SHARED_COUNT, and no thread holds a
\* write guard while any thread holds a read or an upgradable guard.
C1_MutualExclusion ==
    /\ ~(HasBit(state, WRITER_BIT) /\ SharedCount(state) > 0)
    /\ \A t, u \in Threads :
         ~(HoldsExclusive(t) /\ (HoldsShared(u) \/ HoldsUpgradable(u)))

\* a writer holds the lock while a reader and an upgradable waiter are parked
C1_Witness ==
    \E t, u, v \in Threads :
        /\ HoldsExclusive(t) /\ HasBit(state, WRITER_BIT)
        /\ pc[u] = "parked" /\ IsReader(call[u].kind)
        /\ pc[v] = "parked" /\ call[v].kind = "U"

\* C2 Writer uniqueness: at most one thread holds a write guard or has been
\* handed exclusive access by a waker, and then WRITER_BIT is set.
ExclusiveOwners ==
    {t \in Threads : HoldsExclusive(t) \/ PreGranted(t, {"X", "UPG"})}

C2_WriterUnique ==
    /\ Cardinality(ExclusiveOwners) <= 1
    /\ ExclusiveOwners # {} => HasBit(state, WRITER_BIT)

\* a parked writer has been handed the lock and another writer is waiting
C2_Witness ==
    \E t, u \in Threads :
        /\ PreGranted(t, {"X"})
        /\ pc[u] \in {"slow", "park", "parked"} /\ call[u].kind = "X"

\* C3 Upgradable uniqueness: at most one thread holds an upgradable guard.
C3_UpgradableUnique == Cardinality({t \in Threads : HoldsUpgradable(t)}) <= 1

\* an upgradable guard is held beside a plain read guard of another thread
\* while a third thread waits for upgradable access
C3_Witness ==
    \E t, u, v \in Threads :
        /\ t # u /\ HoldsUpgradable(t) /\ HoldsShared(u)
        /\ pc[v] = "parked" /\ call[v].kind = "U"

\* C4 Well-formedness of the upgradable bit: UPGRADABLE_BIT set implies
\* WRITER_BIT clear and SHARED_COUNT >= 1.
C4_UpgradableBit ==
    HasBit(state, UPGRADABLE_BIT) =>
        ~HasBit(state, WRITER_BIT) /\ SharedCount(state) >= 1

\* the bit is set while the upgradable holder is parked for its upgrade
C4_Witness ==
    /\ HasBit(state, UPGRADABLE_BIT)
    /\ \E t \in Threads : pc[t] = "parked" /\ call[t].kind = "UPG"

\* C5 Payload consistency: while a writer is in the middle of its critical
\* section (the payload is -1) it is the only one there and no thread holds a
\* read or upgradable guard; between critical sections the counter equals
\* the number of critical sections completed.
Mutating == {t \in Threads : pc[t] = "mut"}

C5_PayloadConsistent ==
    /\ Cardinality(Mutating) <= 1
    /\ Mutating # {} =>
         /\ data = -1
         /\ \A u \in Threads : ~HoldsShared(u) /\ ~HoldsUpgradable(u)
    /\ Mutating = {} => data = nInc

\* two critical sections are complete, another thread reads the result
C5_Witness ==
    /\ nInc = 2 /\ data = 2
    /\ \E u \in Threads : HoldsShared(u) /\ snap[u] = 2

\* C6 Release balance: when no thread holds a guard and no thread is inside
\* a call, the state word is 0 and both queues are empty.
C6_ReleaseBalance ==
    Quiescent => state = 0 /\ queue = <<>> /\ upqueue = <<>>

\* every call of the run has been made and released
C6_Witness == Quiescent /\ ops = MaxOps /\ nInc >= 1

\* C7 Downgrade atomicity: a thread that holds the read guard of a downgrade
\* (or is still waking readers inside downgrade) sees no writer, and the
\* payload is the value it last wrote.
C7_DowngradeAtomic ==
    \A t \in Threads :
        (pc[t] = "dgwake" \/ HoldsShared(t)) =>
            /\ ~HasBit(state, WRITER_BIT)
            /\ \A u \in Threads : ~HoldsExclusive(u) /\ ~PreGranted(u, {"X", "UPG"})
            /\ snap[t] # None => data = snap[t]

\* a writer wrote 1 and is inside downgrade with waiters queued behind it
C7_Witness ==
    \E t \in Threads :
        pc[t] = "dgwake" /\ snap[t] = 1 /\ data = 1 /\ queue # <<>>

\* C8 Upgrade atomicity: while a thread holds an upgradable guard no other
\* thread holds exclusive or upgradable access, and the payload is what the
\* holder saw under the upgradable guard, up to and including the moment it
\* holds the write guard of the upgrade.
C8_UpgradeAtomic ==
    \A t \in Threads :
        /\ HoldsUpgradable(t) =>
             /\ \A u \in Threads \ {t} :
                  /\ ~HoldsExclusive(u)
                  /\ ~HoldsUpgradable(u)
                  /\ ~PreGranted(u, {"X", "UPG"})
             /\ snap[t] # None => data = snap[t]
        /\ (HoldsExclusive(t) /\ ~guards[t].m /\ pc[t] # "mut") =>
             (snap[t] # None => data = snap[t])

\* the upgrader, parked while a reader was present, has been handed the lock
\* after an earlier critical section changed the payload
C8_Witness ==
    \E t \in Threads :
        PreGranted(t, {"UPG"}) /\ HoldsUpgradable(t) /\ snap[t] = 1 /\ data = 1

\* ------------------------------------------------ the frob workload
\* threads that take the lock in shared or exclusive mode and drop the guard
\* before the next call (rwlock.rs, test frob); MaxOps calls in all
FrobStep(t) ==
    \/ Held(guards[t]) = 0 /\ read(t)
    \/ Held(guards[t]) = 0 /\ write(t)
    \/ ReadGuard_drop(t)
    \/ WriteGuard_drop(t)
    \/ SlowAcquire(t)
    \/ SetParked(t)
    \/ Park(t)
    \/ Resume(t)

FrobNext == \E t \in Threads : FrobStep(t)

SpecFrob == Init /\ [][FrobNext]_vars /\ \A t \in Threads : WF_vars(FrobStep(t))

\* C9 deadlock freedom speaks of this state: every thread is parked or has
\* finished, and at least one is parked.  Whether SpecFrob reaches it turns
\* on what a waiter woken without a handoff finds: WakeSE with fair = FALSE
\* leaves PARKED_BIT to the waiters behind it, and Blocked("S") then sends
\* the woken reader back to the queue.
AllParked ==
    /\ \E t \in Threads : pc[t] = "parked"
    /\ \A t \in Threads :
         pc[t] = "parked" \/ (pc[t] = "idle" /\ Held(guards[t]) = 0 /\ ops = MaxOps)

\* ------------------------------------------------ the upgrade workload
\* threads that hold at most one guard at a time: they read, read
\* recursively, write or read upgradably, and an upgradable holder upgrades
\* with the blocking call; every guard is dropped by a later step
UpgradeStep(t) ==
    \/ Held(guards[t]) = 0 /\ read(t)
    \/ Held(guards[t]) = 0 /\ read_recursive(t)
    \/ Held(guards[t]) = 0 /\ write(t)
    \/ Held(guards[t]) = 0 /\ upgradable_read(t)
    \/ upgrade(t)
    \/ ReadGuard_drop(t)
    \/ WriteGuard_drop(t)
    \/ UpgradableGuard_drop(t)
    \/ SlowAcquire(t)
    \/ SetParked(t)
    \/ Park(t)
    \/ Resume(t)

UpgradeNext == \E t \in Threads : UpgradeStep(t)

\* preemptive threads: a thread that can take a step eventually takes one
SpecUpgrade ==
    Init /\ [][UpgradeNext]_vars /\ \A t \in Threads : WF_vars(UpgradeStep(t))

Upgrading(t) == call[t].kind = "UPG" /\ pc[t] \in {"slow", "park", "parked", "handoff"}

\* C10 upgrade liveness: when every other holder drops its guard, a blocking
\* upgrade returns with exclusive access; in particular an upgrader parked
\* behind other readers is not left parked once the last of them has released
C10_UpgradeLiveness == \A t \in Threads : Upgrading(t) ~> HoldsExclusive(t)

\* the last reader has handed the lock to a parked upgrader while another
\* waiter stays queued
C10_Witness ==
    \E t, u \in Threads :
        /\ pc[t] = "handoff"
        /\ call[t].kind = "UPG"
        /\ HasBit(state, WRITER_BIT)
        /\ pc[u] = "parked"

\* the safety half of C10: a parked upgrader always has another reader to
\* wait for
C10_NotStranded ==
    \A t \in Threads :
        (pc[t] = "parked" /\ call[t].kind = "UPG") => SharedCount(state) > 1

\* ------------------------------------------------ the calls workload
\* every method and every drop on one lock, each call observed in last; the
\* payload is left alone
CallsStep(t) ==
    \/ read(t) \/ try_read(t) \/ try_read_for(t)
    \/ read_recursive(t) \/ try_read_recursive(t) \/ try_read_recursive_for(t)
    \/ write(t) \/ try_write(t) \/ try_write_for(t)
    \/ upgradable_read(t) \/ try_upgradable_read(t) \/ try_upgradable_read_for(t)
    \/ ReadGuard_drop(t) \/ WriteGuard_drop(t) \/ UpgradableGuard_drop(t)
    \/ upgrade(t) \/ try_upgrade(t) \/ try_upgrade_for(t)
    \/ SlowAcquire(t) \/ SetParked(t) \/ Park(t) \/ TimedOut(t) \/ Resume(t)

CallsNext == \E t \in Threads : CallsStep(t)

SpecCalls == InitObserved /\ [][CallsNext]_vars

\* C12 task-fair gate: a read or try_read called while PARKED_BIT is set does
\* not return a guard from the call itself, whatever the other bits are.
C12_TaskFairGate ==
    (last.op \in {"read", "try_read"} /\ HasBit(last.state, PARKED_BIT)) => ~last.ok

\* read was called with a waiter queued and only readers holding the lock,
\* and went to the slow path
C12_Witness ==
    /\ last.op = "read" /\ ~last.ok
    /\ HasBit(last.state, PARKED_BIT) /\ last.queue # <<>>
    /\ ~HasBit(last.state, WRITER_BIT) /\ SharedCount(last.state) >= 1

Stuck(t, u) ==
    /\ t # u
    /\ guards[t].r >= 1
    /\ pc[t] = "parked" /\ call[t].kind = "S" /\ ~call[t].timed
    /\ pc[u] = "parked" /\ call[u].kind = "X" /\ ~call[u].timed

\* the latest call was made by a thread that already held a read guard
ReadHeldBefore == guards[last.t].r - (IF last.ok THEN 1 ELSE 0) >= 1

\* C14 Non-reentrance of default reads: a read() called by a thread that
\* already holds a read guard, while a writer is parked in the queue, does not
\* return a guard; and once that thread is parked in its second read() with
\* the writer parked too, both stay parked for ever (the writer waits for the
\* reader count to reach 0, the reader waits behind the writer).
C14_Deadlock ==
    /\ [](( /\ last.op = "read"
            /\ ReadHeldBefore
            /\ \E i \in 1..Len(last.queue) : last.queue[i].k = "X" ) => ~last.ok)
    /\ [][\A t, u \in Threads : Stuck(t, u) => Stuck(t, u)']_vars

\* the deadlock: the writer is queued ahead of the second read of a thread
\* whose first guard is the only hold on the lock
C14_Witness ==
    \E t, u \in Threads :
        /\ Stuck(t, u)
        /\ guards[t].r = 1
        /\ SharedCount(state) = 1 /\ ~HasBit(state, WRITER_BIT)
        /\ queue = <<[t |-> u, k |-> "X"], [t |-> t, k |-> "S"]>>
        /\ \A v \in Threads \ {t, u} : pc[v] = "idle" /\ Held(guards[v]) = 0

\* C15 try_read law: try_read returns a guard if and only if, at the call,
\* WRITER_BIT is clear, PARKED_BIT is clear (no waiter recorded on the
\* shared/exclusive key) and one more reader does not overflow SHARED_COUNT.
C15_TryReadLaw ==
    last.op = "try_read" =>
        (last.ok <=> ( /\ ~HasBit(last.state, WRITER_BIT)
                       /\ ~HasBit(last.state, PARKED_BIT)
                       /\ NoOverflow(last.state) ))

\* the law without the overflow condition
C15_AsStated ==
    last.op = "try_read" =>
        (last.ok <=> ( /\ ~HasBit(last.state, WRITER_BIT)
                       /\ ~HasBit(last.state, PARKED_BIT) ))

\* try_read succeeds beside a plain reader and an upgradable holder
C15_Witness ==
    /\ last.op = "try_read" /\ last.ok
    /\ HasBit(last.state, UPGRADABLE_BIT)
    /\ SharedCount(last.state) = 2
    /\ guards[last.t].r = 1

\* C16 try_write succeeds if and only if the state word is 0 at the call, and
\* on success the state word is exactly WRITER_BIT.
C16_TryWriteLaw ==
    last.op = "try_write" =>
        /\ last.ok <=> last.state = 0
        /\ last.ok => state = WRITER_BIT /\ HoldsExclusive(last.t)

\* try_write fails on a free lock whose word still has a parked bit
C16_Witness ==
    /\ last.op = "try_write" /\ ~last.ok
    /\ last.state \in {PARKED_BIT, UPGRADABLE_PARKED_BIT, PARKED_BIT + UPGRADABLE_PARKED_BIT}

\* C17 try_upgradable_read succeeds if and only if WRITER_BIT, UPGRADABLE_BIT
\* and UPGRADABLE_PARKED_BIT are clear and the count does not overflow,
\* whatever the number of plain readers; on success the word gains
\* UPGRADABLE_BIT and ONE_READER and nothing else changes.
C17_TryUpgradableLaw ==
    last.op = "try_upgradable_read" =>
        /\ last.ok <=> ( /\ ~HasBit(last.state, WRITER_BIT)
                         /\ ~HasBit(last.state, UPGRADABLE_BIT)
                         /\ ~HasBit(last.state, UPGRADABLE_PARKED_BIT)
                         /\ NoOverflow(last.state) )
        /\ last.ok => /\ state = last.state + UPGRADABLE_BIT + ONE_READER
                      /\ queue = last.queue /\ upqueue = last.upqueue
                      /\ HoldsUpgradable(last.t)

\* try_upgradable_read succeeds beside two plain readers with a writer parked
C17_Witness ==
    /\ last.op = "try_upgradable_read" /\ last.ok
    /\ SharedCount(last.state) = 2
    /\ HasBit(last.state, PARKED_BIT)
    /\ HasBit(state, UPGRADABLE_BIT) /\ SharedCount(state) = 3

\* C18 try_upgrade by the upgradable holder succeeds if and only if it is the
\* only holder (SHARED_COUNT = 1); on success the caller holds exclusive
\* access and UPGRADABLE_BIT and the count are cleared; on failure the caller
\* holds upgradable access and the word is as before.
C18_TryUpgradeLaw ==
    last.op = "try_upgrade" =>
        /\ last.ok <=> SharedCount(last.state) = 1
        /\ last.ok => /\ HoldsExclusive(last.t) /\ ~HoldsUpgradable(last.t)
                      /\ HasBit(state, WRITER_BIT)
                      /\ ~HasBit(state, UPGRADABLE_BIT)
                      /\ SharedCount(state) = 0
        /\ ~last.ok => /\ HoldsUpgradable(last.t) /\ ~HoldsExclusive(last.t)
                       /\ state = last.state
                       /\ HasBit(state, UPGRADABLE_BIT)

\* try_upgrade fails beside a plain reader
C18_Witness ==
    /\ last.op = "try_upgrade" /\ ~last.ok
    /\ SharedCount(last.state) = 2
    /\ \E u \in Threads \ {last.t} : HoldsShared(u)

TryOps == {"try_read", "try_read_recursive", "try_write", "try_upgradable_read", "try_upgrade"}

InQueue(t) ==
    \/ \E i \in 1..Len(queue) : queue[i].t = t
    \/ \E i \in 1..Len(upqueue) : upqueue[i] = t

\* C19 A try operation that reports failure has no side effect: the state
\* word and both queues are as before the call, and the caller is neither
\* enqueued nor suspended.
C19_TryNoSideEffect ==
    (last.op \in TryOps /\ ~last.ok) =>
        /\ state = last.state
        /\ queue = last.queue
        /\ upqueue = last.upqueue
        /\ pc[last.t] = "idle"
        /\ ~InQueue(last.t)

\* a failed try_read_recursive under a writer, with waiters in both queues
C19_Witness ==
    /\ last.op = "try_read_recursive" /\ ~last.ok
    /\ HasBit(state, WRITER_BIT)
    /\ HasBit(state, PARKED_BIT) /\ HasBit(state, UPGRADABLE_PARKED_BIT)
    /\ queue # <<>> /\ upqueue # <<>>

\* the shared holds the guards and the delivered handoffs account for: an
\* upgrader that was handed the lock has already given its count back
Holds(t) ==
    IF pc[t] = "handoff"
    THEN CASE call[t].kind \in {"S", "SR", "U"} -> Held(guards[t]) + 1
           [] call[t].kind = "UPG" -> guards[t].r
           [] OTHER -> guards[t].r + (IF guards[t].u THEN 1 ELSE 0)
    ELSE guards[t].r + (IF guards[t].u THEN 1 ELSE 0)

RECURSIVE SumHolds(_)
SumHolds(T) ==
    IF T = {} THEN 0
    ELSE LET t == CHOOSE x \in T : TRUE IN Holds(t) + SumHolds(T \ {t})

\* every count and every holder bit of the word belongs to a guard or to a
\* handoff that was delivered
Accounted ==
    /\ SharedCount(state) = SumHolds(Threads)
    /\ HasBit(state, WRITER_BIT) <=> ExclusiveOwners # {}
    /\ HasBit(state, UPGRADABLE_BIT) <=>
         \E t \in Threads : \/ HoldsUpgradable(t) /\ ~PreGranted(t, {"UPG"})
                            \/ PreGranted(t, {"U"})

\* C20 Timed acquisition outcome: a timed acquire or upgrade that returns
\* failure was never granted: the caller got no guard, is in no queue, every
\* count and holder bit of the word is accounted for by the guards held and
\* the handoffs delivered, a timed upgrade leaves its caller the upgradable
\* guard; and a timed waiter that was handed the lock does not time out: its
\* call returns the guard.
C20_TimedOutcome ==
    /\ [](last.op \in {"timed_out", "upgrade_timed_out"} =>
            /\ ~last.ok
            /\ pc[last.t] = "idle"
            /\ ~InQueue(last.t)
            /\ Accounted
            /\ state \div WRITER_BIT = last.state \div WRITER_BIT
            /\ last.op = "upgrade_timed_out" =>
                 /\ HoldsUpgradable(last.t) /\ ~HoldsExclusive(last.t)
                 /\ HasBit(state, UPGRADABLE_BIT))
    /\ [][\A t \in Threads :
            (pc[t] = "handoff" /\ call[t].timed) =>
                \/ pc'[t] = "handoff" /\ guards'[t] = guards[t]
                \/ pc'[t] = "idle" /\ guards'[t] = MakeGuard(guards[t], call[t].guard)]_vars

\* a timed upgrade fails beside a reader that still holds its guard, and the
\* caller keeps the upgradable guard
C20_Witness ==
    /\ last.op = "upgrade_timed_out"
    /\ HoldsUpgradable(last.t)
    /\ SharedCount(state) = 2
    /\ \E u \in Threads \ {last.t} : HoldsShared(u)
    /\ queue = <<>> /\ ~HasBit(state, PARKED_BIT)

\* ------------------------------------------------ fair releases observed
FairStep(t) ==
    \/ read(t) \/ read_recursive(t) \/ write(t) \/ upgradable_read(t) \/ upgrade(t)
    \/ ReadGuard_drop(t) \/ WriteGuard_drop(t) \/ UpgradableGuard_drop(t)
    \/ ReadGuard_unlock_fair(t) \/ WriteGuard_unlock_fair(t)
    \/ UpgradableGuard_unlock_fair(t)
    \/ SlowAcquire(t) \/ SetParked(t) \/ Park(t) \/ Resume(t)

FairNext == \E t \in Threads : FairStep(t)

SpecFair == InitObserved /\ [][FairNext]_vars

\* the waiters the latest step took out of the shared/exclusive queue
Dequeued == {last.queue[i].t : i \in 1..Len(last.queue)} \ {queue[i].t : i \in 1..Len(queue)}

\* the bits a delivered handoff keeps in the word on the waiter's behalf
GrantKept(u) ==
    IF call[u].kind \in {"X", "UPG"}
    THEN HasBit(state, WRITER_BIT) /\ SharedCount(state) = 0
    ELSE ~HasBit(state, WRITER_BIT) /\ SharedCount(state) >= 1

PanicStep(t) ==
    \/ read(t) \/ write(t) \/ try_read(t) \/ try_write(t)
    \/ ReadGuard_drop(t) \/ WriteGuard_drop(t)
    \/ Panic(t)
    \/ WriteBegin(t) \/ WriteEnd(t)
    \/ SlowAcquire(t) \/ SetParked(t) \/ Park(t) \/ Resume(t)

PanicNext == \E t \in Threads : PanicStep(t)

SpecPanic == InitObserved /\ [][PanicNext]_vars

Dead == {t \in Threads : pc[t] = "dead"}

\* C22 No poisoning: a scope that ends by unwind leaves no hold behind (the
\* word accounts for exactly the guards still held); once every scope has
\* ended, by unwind or normally, the word is 0 and the queues are empty; a
\* read, write, try_read or try_write called on the free lock succeeds and
\* sees the payload as last written, however many scopes ended by unwind.
C22_NoPoison ==
    /\ \A t \in Dead : guards[t] = NoGuards
    /\ Accounted
    /\ (\A t \in Threads : pc[t] \in {"idle", "dead"} /\ Held(guards[t]) = 0) =>
           state = 0 /\ queue = <<>> /\ upqueue = <<>>
    /\ (last.op \in {"read", "write", "try_read", "try_write"} /\ last.state = 0) =>
           last.ok /\ snap[last.t] = data
    /\ Mutating = {} => data = nInc

\* a writer's scope completed a critical section and ended by unwind, a
\* second scope ended by unwind too, and the third thread's read succeeds and
\* sees the value written
C22_Witness ==
    /\ Cardinality(Dead) = 2
    /\ last.op = "read" /\ last.ok
    /\ data = 1 /\ snap[last.t] = 1

Believers ==
    {t \in Threads : HoldsShared(t) \/ (HoldsUpgradable(t) /\ ~PreGranted(t, {"UPG"}))}

\* C25 Reader-count accounting: SHARED_COUNT equals the read guards
\* outstanding (each recursive one counted), plus one for the upgradable
\* holder, plus the readers a waker has pre-granted that have not resumed; it
\* is never smaller than the number of threads that hold shared access.
C25_ReaderCount ==
    /\ SharedCount(state) = SumHolds(Threads)
    /\ SharedCount(state) >= Cardinality(Believers)

\* one thread holds two read guards and a parked reader has been pre-granted
C25_Witness ==
    /\ SharedCount(state) = 3
    /\ \E t, u \in Threads :
         /\ guards[t].r = 2
         /\ PreGranted(u, {"S", "SR"}) /\ Held(guards[u]) = 0

WakeWorkStep(t) ==
    \/ read(t) \/ write(t) \/ try_read_for(t) \/ try_write_for(t)
    \/ ReadGuard_drop(t) \/ WriteGuard_drop(t)
    \/ ReadGuard_unlock_fair(t) \/ WriteGuard_unlock_fair(t)
    \/ WriteGuard_downgrade(t) \/ DowngradeWake(t)
    \/ SlowAcquire(t) \/ SetParked(t) \/ Park(t) \/ TimedOut(t) \/ Resume(t)

WakeWorkNext == \E t \in Threads : WakeWorkStep(t)

SpecWake == InitObserved /\ [][WakeWorkNext]_vars

\* a release or the second step of a downgrade: the steps that run the wake
\* pass over the shared/exclusive queue
WakeStep(t) ==
    \/ ReadGuard_drop(t) \/ ReadGuard_unlock_fair(t)
    \/ WriteGuard_drop(t) \/ WriteGuard_unlock_fair(t)
    \/ UpgradableGuard_drop(t) \/ UpgradableGuard_unlock_fair(t)
    \/ DowngradeWake(t)

ClearsParked == HasBit(state, PARKED_BIT) /\ ~HasBit(state', PARKED_BIT)

\* C27 PARKED_BIT is cleared only by unpark paths and by the timeout
\* clean-up: a step that changes PARKED_BIT from set to clear is a release or
\* a downgrade's wake pass, or the timeout of a timed waiter that leaves the
\* shared/exclusive queue empty.
C27_ParkedCleared ==
    [][ClearsParked =>
          \E t \in Threads : WakeStep(t) \/ (TimedOut(t) /\ queue' = <<>>)]_vars

\* the claim without the timeout clean-up
C27_AsStated ==
    [][ClearsParked => \E t \in Threads : WakeStep(t)]_vars

\* an unfair drop has woken the last waiter and cleared PARKED_BIT
C27_Witness ==
    /\ last.op = "drop_unfair"
    /\ HasBit(last.state, PARKED_BIT) /\ ~HasBit(state, PARKED_BIT)
    /\ Dequeued # {} /\ queue = <<>>

Timeouts == {"timed_out", "upgrade_timed_out"}

\* the waiter of the latest step was queued on the upgradable key
OnUpgradableKey == \E i \in 1..Len(last.upqueue) : last.upqueue[i] = last.t

\* C28 Timeout clean-up: a timed waiter that times out removes itself from
\* its queue and nothing else; the bit of its key is set afterwards exactly
\* when other waiters remain on that key; the other key's bit, the holder
\* bits and the reader count are as before.
C28_TimeoutCleanup ==
    last.op \in Timeouts =>
        /\ state \div WRITER_BIT = last.state \div WRITER_BIT
        /\ IF OnUpgradableKey
           THEN /\ upqueue = RemoveUp(last.upqueue, last.t)
                /\ Len(upqueue) = Len(last.upqueue) - 1
                /\ queue = last.queue
                /\ HasBit(last.state, UPGRADABLE_PARKED_BIT)
                /\ HasBit(state, UPGRADABLE_PARKED_BIT) <=> upqueue # <<>>
                /\ HasBit(state, PARKED_BIT) <=> HasBit(last.state, PARKED_BIT)
           ELSE /\ queue = RemoveThread(last.queue, last.t)
                /\ Len(queue) = Len(last.queue) - 1
                /\ upqueue = last.upqueue
                /\ HasBit(last.state, PARKED_BIT)
                /\ HasBit(state, PARKED_BIT) <=> queue # <<>>
                /\ HasBit(state, UPGRADABLE_PARKED_BIT) <=>
                     HasBit(last.state, UPGRADABLE_PARKED_BIT)

\* a timed upgradable waiter times out as the last of its queue while a
\* writer holds the lock and another waiter stays on the shared/exclusive key
C28_Witness ==
    /\ last.op = "timed_out"
    /\ OnUpgradableKey
    /\ upqueue = <<>> /\ ~HasBit(state, UPGRADABLE_PARKED_BIT)
    /\ queue # <<>> /\ HasBit(state, PARKED_BIT)
    /\ HasBit(state, WRITER_BIT)

\* ------------------------------------------------ the upgradable key tracked
UpKeyStep(t) ==
    \/ read(t) \/ write(t) \/ upgradable_read(t) \/ try_upgradable_read_for(t)
    \/ ReadGuard_drop(t) \/ WriteGuard_drop(t) \/ UpgradableGuard_drop(t)
    \/ UpgradableGuard_downgrade(t) \/ upgrade(t)
    \/ SlowAcquire(t) \/ SetParked(t) \/ Park(t) \/ TimedOut(t) \/ Resume(t)

UpKeyNext == \E t \in Threads : UpKeyStep(t)

SpecUpKey == InitTracked /\ [][UpKeyNext]_vars

\* a thread has set the upgradable key's bit and not yet enqueued itself
AboutToPark(k) == \E t \in Threads : pc[t] = "park" /\ call[t].kind = k

\* C29 If UPGRADABLE_PARKED_BIT is set then a waiter was enqueued on the
\* upgradable key, or a thread that set the bit is between that CAS and its
\* enqueue.
C29_UpgradableParked ==
    HasBit(state, UPGRADABLE_PARKED_BIT) => ("upgradable" \in enq \/ AboutToPark("U"))

\* the claim without the thread that is about to park
C29_AsStated ==
    HasBit(state, UPGRADABLE_PARKED_BIT) => "upgradable" \in enq

\* the bit is set and a waiter is in the upgradable queue
C29_Witness ==
    /\ HasBit(state, UPGRADABLE_PARKED_BIT)
    /\ upqueue # <<>>
    /\ "upgradable" \in enq
    /\ \E t \in Threads : pc[t] = "parked" /\ call[t].kind = "U"

Releases == {"drop_fair", "drop_unfair", "unlock_fair"}

\* the latest step was the exclusive holder's release and it found a writer
\* at the head of the shared/exclusive queue
WriterFirst ==
    /\ last.op \in Releases
    /\ HasBit(last.state, WRITER_BIT)
    /\ last.queue # <<>>
    /\ Head(last.queue).k = "X"

\* the release took the head of the queue and nobody else from it
OnlyHeadWoken ==
    /\ queue = Tail(last.queue)
    /\ Dequeued = {Head(last.queue).t}
    /\ \A i \in 1..Len(queue) : pc[queue[i].t] = "parked"

\* C30 Wake policy on exclusive release, writer first: the releaser wakes
\* the writer at the head of the shared/exclusive queue and no other waiter
\* of that key; a fair release (unlock_fair, or the fairness clock asking)
\* leaves WRITER_BIT set on the writer's behalf and the writer at the
\* handoff; an unfair release leaves WRITER_BIT clear and the writer to retry.
C30_WriterFirst ==
    WriterFirst =>
        /\ OnlyHeadWoken
        /\ IF last.op = "drop_unfair"
           THEN /\ pc[Head(last.queue).t] = "slow"
                /\ ~HasBit(state, WRITER_BIT)
           ELSE /\ pc[Head(last.queue).t] = "handoff"
                /\ HasBit(state, WRITER_BIT) /\ SharedCount(state) = 0
                /\ ExclusiveOwners = {Head(last.queue).t}

\* the claim as stated: every exclusive release grants the writer the lock
C30_AsStated ==
    WriterFirst =>
        /\ OnlyHeadWoken
        /\ pc[Head(last.queue).t] = "handoff"
        /\ HasBit(state, WRITER_BIT)

\* a fair release hands the lock to the writer at the head and leaves the
\* reader queued behind it parked
C30_Witness ==
    /\ WriterFirst
    /\ last.op \in {"drop_fair", "unlock_fair"}
    /\ Len(last.queue) = 2 /\ IsReader(last.queue[2].k)
    /\ pc[last.queue[1].t] = "handoff"
    /\ pc[last.queue[2].t] = "parked"
    /\ HasBit(state, WRITER_BIT) /\ HasBit(state, PARKED_BIT)

\* the latest step was the exclusive holder's release and it found a reader
\* at the head of the shared/exclusive queue
ReadersFirst ==
    /\ last.op \in Releases
    /\ HasBit(last.state, WRITER_BIT)
    /\ last.queue # <<>>
    /\ IsReader(Head(last.queue).k)

\* the release took the readers at the head of the queue, all of them and
\* nobody else, and left PARKED_BIT set exactly when a writer stays queued
ReadersWoken ==
    LET n == ReaderPrefix(last.queue)
    IN /\ queue = SkipN(last.queue, n)
       /\ Dequeued = Waiters(last.queue, n)
       /\ Cardinality(Dequeued) = n
       /\ \A i \in 1..Len(queue) : pc[queue[i].t] = "parked"
       /\ HasBit(state, PARKED_BIT) <=> (\E i \in 1..Len(queue) : queue[i].k = "X")
       /\ queue # <<>> => queue[1].k = "X"

\* C31 Wake policy on exclusive release, readers first: the releaser wakes
\* all the readers at the head of the shared/exclusive queue and clears
\* PARKED_BIT if and only if no writer remains queued behind them; a fair
\* release (unlock_fair, or the fairness clock asking) adds to SHARED_COUNT
\* exactly the number of readers it wakes and leaves them at the handoff; an
\* unfair release adds nothing and leaves them to retry.
C31_ReadersFirst ==
    ReadersFirst =>
        /\ ReadersWoken
        /\ ~HasBit(state, WRITER_BIT)
        /\ IF last.op = "drop_unfair"
           THEN /\ SharedCount(state) = 0
                /\ \A u \in Dequeued : pc[u] = "slow"
           ELSE /\ SharedCount(state) = ReaderPrefix(last.queue)
                /\ \A u \in Dequeued : pc[u] = "handoff"

\* the claim as stated: every exclusive release adds the woken readers to
\* the count
C31_AsStated ==
    ReadersFirst =>
        /\ ReadersWoken
        /\ SharedCount(state) = ReaderPrefix(last.queue)

\* a fair release has pre-granted the reader at the head and left the writer
\* queued behind it parked, PARKED_BIT still set
C31_Witness ==
    /\ ReadersFirst
    /\ last.op \in {"drop_fair", "unlock_fair"}
    /\ Len(last.queue) = 2 /\ last.queue[2].k = "X"
    /\ pc[last.queue[1].t] = "handoff"
    /\ pc[last.queue[2].t] = "parked"
    /\ SharedCount(state) = 1 /\ HasBit(state, PARKED_BIT)

\* ------------------------------------------------ the upgradable-wait workload
\* threads that hold one guard at a time: they read, write or read
\* upgradably, a writer or an upgradable holder may downgrade, and every
\* guard is released by a later step
UpWaitStep(t) ==
    \/ Held(guards[t]) = 0 /\ read(t)
    \/ Held(guards[t]) = 0 /\ write(t)
    \/ Held(guards[t]) = 0 /\ upgradable_read(t)
    \/ ReadGuard_drop(t) \/ WriteGuard_drop(t) \/ UpgradableGuard_drop(t)
    \/ WriteGuard_unlock_fair(t) \/ UpgradableGuard_unlock_fair(t)
    \/ WriteGuard_downgrade(t) \/ DowngradeWake(t)
    \/ UpgradableGuard_downgrade(t)
    \/ SlowAcquire(t) \/ SetParked(t) \/ Park(t) \/ Resume(t)

UpWaitNext == \E t \in Threads : UpWaitStep(t)

\* preemptive threads: a thread that can take a step eventually takes one, so
\* every holder eventually releases
SpecUpWait ==
    InitObserved /\ [][UpWaitNext]_vars /\ \A t \in Threads : WF_vars(UpWaitStep(t))

\* the steps that end upgradable or exclusive access
UpgradableAccessEnds(t) ==
    \/ UpgradableGuard_drop(t) \/ UpgradableGuard_unlock_fair(t)
    \/ UpgradableGuard_downgrade(t)
    \/ WriteGuard_drop(t) \/ WriteGuard_unlock_fair(t)

ParkedUpgradable(t) == pc[t] = "parked" /\ call[t].kind = "U"

\* the wake half of C32: a release of upgradable access, a downgrade of
\* upgradable to shared or a release of exclusive access that finds
\* UPGRADABLE_PARKED_BIT set wakes the first waiter of the upgradable key and
\* no other, leaving the bit set exactly when waiters remain; with the bit
\* set and nobody queued yet it clears the bit.  The woken waiter retries.
UpgradableWake ==
    [][\A t \in Threads :
         (UpgradableAccessEnds(t) /\ HasBit(state, UPGRADABLE_PARKED_BIT)) =>
             IF upqueue # <<>>
             THEN /\ pc'[Head(upqueue)] = "slow"
                  /\ guards'[Head(upqueue)] = guards[Head(upqueue)]
                  /\ upqueue' = Tail(upqueue)
                  /\ \A i \in 1..Len(upqueue') : pc'[upqueue'[i]] = "parked"
                  /\ HasBit(state', UPGRADABLE_PARKED_BIT) <=> upqueue' # <<>>
                  /\ ~HasBit(state', UPGRADABLE_BIT)
             ELSE /\ upqueue' = <<>>
                  /\ ~HasBit(state', UPGRADABLE_PARKED_BIT)]_vars

\* C32 Upgradable waiter progress: the releases of upgradable and exclusive
\* access wake a waiter of the upgradable key, hence a thread parked in
\* upgradable_read eventually holds upgradable access, every holder
\* releasing in the end.
C32_UpgradableProgress ==
    UpgradableWake /\ \A t \in Threads : ParkedUpgradable(t) ~> HoldsUpgradable(t)

\* C33 Downgrade transition: the exclusive-to-shared downgrade replaces
\* WRITER_BIT by exactly one reader in one step that changes nothing else of
\* the word and of the queues and wakes nobody; its wake pass, made when that
\* step found PARKED_BIT, wakes the readers at the head of the
\* shared/exclusive queue up to the first writer and nobody else: no writer
\* is woken or granted, and the upgradable key is left alone.
C33_Downgrade ==
    /\ last.op = "downgrade" =>
         /\ HasBit(last.state, WRITER_BIT)
         /\ state = last.state - WRITER_BIT + ONE_READER
         /\ queue = last.queue /\ upqueue = last.upqueue
         /\ \A i \in 1..Len(queue) : pc[queue[i].t] = "parked"
         /\ \A i \in 1..Len(upqueue) : pc[upqueue[i]] = "parked"
         /\ guards[last.t] = read_guard(NoGuards)
         /\ pc[last.t] = IF HasBit(last.state, PARKED_BIT) THEN "dgwake" ELSE "idle"
         /\ ExclusiveOwners = {}
    /\ last.op = "downgrade_wake" =>
         LET n == ReaderPrefix(last.queue)
         IN /\ queue = SkipN(last.queue, n)
            /\ Dequeued = Waiters(last.queue, n)
            /\ \A u \in Dequeued : IsReader(call[u].kind) /\ pc[u] = "slow"
            /\ \A i \in 1..Len(queue) : pc[queue[i].t] = "parked"
            /\ queue # <<>> => queue[1].k = "X"
            /\ state \div UPGRADABLE_PARKED_BIT = last.state \div UPGRADABLE_PARKED_BIT
            /\ HasBit(state, PARKED_BIT) <=> queue # <<>>
            /\ upqueue = last.upqueue
            /\ \A i \in 1..Len(upqueue) : pc[upqueue[i]] = "parked"
            /\ ExclusiveOwners = {}
    /\ \A t \in Threads : pc[t] = "dgwake" =>
         /\ ~HasBit(state, WRITER_BIT) /\ SharedCount(state) >= 1
         /\ HoldsShared(t)
         /\ ExclusiveOwners = {}

\* a downgrade's wake pass has woken the reader at the head of the queue and
\* left the writer behind it parked, PARKED_BIT still set
C33_Witness ==
    /\ last.op = "downgrade_wake"
    /\ Len(last.queue) = 2
    /\ IsReader(last.queue[1].k) /\ last.queue[2].k = "X"
    /\ pc[last.queue[1].t] = "slow"
    /\ pc[last.queue[2].t] = "parked"
    /\ HasBit(state, PARKED_BIT) /\ SharedCount(state) = 1

\* the latest step was the release of the last shared holder beside an
\* upgrader parked on the shared/exclusive key
LastReaderLeft ==
    /\ last.op \in Releases
    /\ HasBit(last.state, UPGRADABLE_BIT)
    /\ SharedCount(last.state) = 2
    /\ UpgraderAt(last.queue) # {}

\* the upgrader that was parked there
ParkedUpgrader == last.queue[CHOOSE i \in UpgraderAt(last.queue) : TRUE].t

\* C34 Upgrade handoff by the last reader: the release of the last other
\* shared holder sets WRITER_BIT, clears UPGRADABLE_BIT and the reader count
\* and leaves the parked upgrader at the handoff, the only waiter taken out
\* of the queue; from then until the upgrader returns with its write guard
\* the word keeps WRITER_BIT and no other thread gains a guard.
C34_UpgradeHandoff ==
    /\ [](LastReaderLeft =>
            /\ pc[ParkedUpgrader] = "handoff"
            /\ HasBit(state, WRITER_BIT)
            /\ ~HasBit(state, UPGRADABLE_BIT)
            /\ SharedCount(state) = 0
            /\ Dequeued = {ParkedUpgrader}
            /\ HasBit(state, PARKED_BIT) <=> queue # <<>>
            /\ HasBit(state, UPGRADABLE_PARKED_BIT) <=>
                 HasBit(last.state, UPGRADABLE_PARKED_BIT)
            /\ upqueue = last.upqueue
            /\ ExclusiveOwners = {ParkedUpgrader}
            /\ \A v \in Threads \ {ParkedUpgrader} : Held(guards[v]) = 0)
    /\ [][\A u \in Threads : PreGranted(u, {"UPG"}) =>
            /\ HasBit(state', WRITER_BIT) /\ SharedCount(state') = 0
            /\ \A v \in Threads \ {u} : guards'[v] = guards[v]
            /\ \/ pc'[u] = "handoff" /\ guards'[u] = guards[u]
               \/ /\ pc'[u] = "idle"
                  /\ guards'[u] = write_guard(forget_upgradable(guards[u]))
                  /\ state' = state]_vars

\* the last reader has handed the lock to the parked upgrader while a writer
\* stays queued and PARKED_BIT stays set
C34_Witness ==
    /\ LastReaderLeft
    /\ pc[ParkedUpgrader] = "handoff"
    /\ HasBit(state, WRITER_BIT) /\ HasBit(state, PARKED_BIT)
    /\ queue # <<>> /\ queue[1].k = "X"

\* the calls that add a reader to the count
SharedOps ==
    {"read", "try_read", "try_read_for",
     "read_recursive", "try_read_recursive", "try_read_recursive_for",
     "upgradable_read", "try_upgradable_read", "try_upgradable_read_for"}

====
